---------------------------- MODULE Spec2Model ----------------------------
(***************************************************************************)
(* The rolling statistics window of lib/status.js (class Status).          *)
(*                                                                         *)
(* JavaScript objects are modelled with their identity: `heap' maps the    *)
(* identity of every bucket object that is still referenced to its         *)
(* fields, and the array this[WINDOW] is a sequence of identities.  An     *)
(* array returned by the `window' getter is another sequence of the same   *)
(* identities (Array.prototype.slice copies the array, not its elements).  *)
(* JavaScript runs every callback to completion, so each method, getter    *)
(* and timer callback is one atomic action.  The two interval timers the   *)
(* constructor registers have the same period; the runtime keeps timers of *)
(* one period in one list, runs the first and puts it back at the end.     *)
(*                                                                         *)
(* Numbers: the quantiles 0, 0.25, ... 1 are written in thousandths        *)
(* (0, 250, ... 1000), and a quotient a / b is the fraction in lowest      *)
(* terms [num, den] (0 / 0, JavaScript's NaN, is [num |-> 0, den |-> 0]).  *)
(***************************************************************************)
EXTENDS Integers, Sequences, FiniteSets, TLC

\* Bounds of the model.
MaxBuckets == 2
MaxEvents == 2
MaxRotations == 2
MaxSamples == 4
MaxTicks == 4

VARIABLES
    BUCKETS,                    \* this[BUCKETS]: options.rollingCountBuckets
    rollingPercentilesEnabled,  \* this.rollingPercentilesEnabled
    WINDOW,                     \* this[WINDOW]: array of bucket identities
    heap,                       \* identity -> fields, of every referenced bucket
    nextId,                     \* identity of the next object bucket() creates
    result,                     \* what the last step returned, threw or emitted
    TIMEOUT,                    \* this[TIMEOUT]: options.rollingCountTimeout
    timerList,                  \* callbacks of the interval timers, next first
    disposed,                   \* the owner of the instance has shut down
    sinceRotation,              \* history: snapshots emitted since the last rotation
    calls,                      \* history: increment calls per kind, one entry
                                \* per rotation, the latest first
    tracked                     \* history: one followed increment call

vars == <<BUCKETS, rollingPercentilesEnabled, WINDOW, heap, nextId, result,
          TIMEOUT, timerList, disposed, sinceRotation, calls, tracked>>

----------------------------------------------------------------------------
\* Values

\* The nine counters of a bucket (the numeric keys of bucket()).
Counters ==
    {"failures", "fallbacks", "successes", "rejects", "fires", "timeouts",
     "cacheHits", "cacheMisses", "semaphoreRejections"}

\* this[PERCENTILES] = [0.0, 0.25, 0.5, 0.75, 0.9, 0.95, 0.99, 0.995, 1],
\* in thousandths.
PERCENTILES == <<0, 250, 500, 750, 900, 950, 990, 995, 1000>>

\* bucket(): a new bucket.  It has no isCircuitBreakerOpen key.
bucket ==
    [failures |-> 0, fallbacks |-> 0, successes |-> 0, rejects |-> 0,
     fires |-> 0, timeouts |-> 0, cacheHits |-> 0, cacheMisses |-> 0,
     semaphoreRejections |-> 0, percentiles |-> <<>>, latencyTimes |-> <<>>]

\* An optional argument is <<>> when omitted (undefined) and <<x>> otherwise.
\* latencyRunTime || 0
OrZero(arg) == IF Len(arg) = 0 THEN 0 ELSE IF arg[1] = 0 THEN 0 ELSE arg[1]

\* arr[i] || 0 for a 0-based index i: undefined outside the array.
ElementOrZero(arr, i) ==
    IF i >= 0 /\ i < Len(arr) THEN (IF arr[i + 1] = 0 THEN 0 ELSE arr[i + 1]) ELSE 0

Abs(n) == IF n < 0 THEN -n ELSE n

RECURSIVE Gcd(_, _)
Gcd(a, b) == IF b = 0 THEN a ELSE Gcd(b, a % b)

\* a / b
Quotient(a, b) ==
    IF b = 0 THEN [num |-> 0, den |-> 0]
    ELSE LET g == Gcd(Abs(a), b) IN [num |-> a \div g, den |-> b \div g]

\* Math.ceil(percentile * n), percentile in thousandths
CeilTimes(percentile, n) == (percentile * n + 999) \div 1000

\* A percentile that reads arr[idx] where the code reads arr[idx - 1].
calculatePercentileOffByOne(percentile, arr) ==
    IF percentile = 0
    THEN ElementOrZero(arr, 0)
    ELSE LET idx == CeilTimes(percentile, Len(arr))
         IN ElementOrZero(arr, idx)

\* calculatePercentile(percentile, arr)
calculatePercentile(percentile, arr) ==
    IF percentile = 0
    THEN ElementOrZero(arr, 0)
    ELSE LET idx == CeilTimes(percentile, Len(arr))
         IN ElementOrZero(arr, idx - 1)

RECURSIVE Insert(_, _)
Insert(x, sorted) ==
    IF sorted = <<>> THEN <<x>>
    ELSE IF x - Head(sorted) < 0 THEN <<x>> \o sorted
    ELSE <<Head(sorted)>> \o Insert(x, Tail(sorted))

\* A sort that leaves the array in the order of arrival.
SortNone(arr) == arr

\* arr.sort((a, b) => a - b)
RECURSIVE Sort(_)
Sort(arr) == IF arr = <<>> THEN <<>> ELSE Insert(Head(arr), Sort(Tail(arr)))

\* arr.reduce((a, b) => a + b, 0)
RECURSIVE SumSeq(_)
SumSeq(arr) == IF arr = <<>> THEN 0 ELSE Head(arr) + SumSeq(Tail(arr))

----------------------------------------------------------------------------
\* The stats getter

\* A reduce callback that assigns (acc[key] = val[key]) where the code adds.
ReduceStepAssign(acc, val, enabled) ==
    [key \in DOMAIN acc |->
        IF key \in Counters THEN val[key]
        ELSE IF key = "latencyTimes" /\ enabled
             THEN acc.latencyTimes \o val.latencyTimes
        ELSE acc[key]]

\* One step of the reduce callback: acc after the bucket val is folded in.
\* Object.keys(acc) are the keys of bucket(); val[key] || 0 is val[key] for
\* the counters every bucket carries.
ReduceStep(acc, val, enabled) ==
    [key \in DOMAIN acc |->
        IF key \in Counters THEN acc[key] + val[key]
        ELSE IF key = "latencyTimes" /\ enabled
             THEN acc.latencyTimes \o val.latencyTimes
        ELSE acc[key]]

\* this[WINDOW].reduce(callback, bucket()), over the buckets from index i on
RECURSIVE Reduce(_, _, _, _, _)
Reduce(win, hp, enabled, i, acc) ==
    IF i > Len(win) THEN acc
    ELSE IF win[i] \notin DOMAIN hp          \* if (!val) return acc
         THEN Reduce(win, hp, enabled, i + 1, acc)
    ELSE Reduce(win, hp, enabled, i + 1, ReduceStep(acc, hp[win[i]], enabled))

\* The quantiles as a set of keys.
Quantiles == {PERCENTILES[j] : j \in 1..Len(PERCENTILES)}

\* A mean taken without looking at the length: 0 / 0 on an empty list.
MeanNoLengthCheck(sorted) == Quotient(SumSeq(sorted), Len(sorted))

\* The mean latency: the sum over the length, or 0 for an empty list.
Mean(sorted) ==
    IF Len(sorted) # 0
    THEN Quotient(SumSeq(sorted), Len(sorted))
    ELSE Quotient(0, 1)

\* The branch of the stats getter taken with rollingPercentilesEnabled.
Computed(totals) ==
    LET sorted == Sort(totals.latencyTimes)
    IN [totals EXCEPT
          !.latencyTimes = sorted,
          !.percentiles = [p \in Quantiles |-> calculatePercentile(p, sorted)]]
       @@ ("latencyMean" :> Mean(sorted))

\* A branch for disabled tracking that reports 0 where the code reports -1.
NotComputedZero(totals) ==
    [totals EXCEPT !.percentiles = [p \in Quantiles |-> 0]]
    @@ ("latencyMean" :> Quotient(0, 1))

\* The branch of the stats getter taken without rollingPercentilesEnabled.
NotComputed(totals) ==
    [totals EXCEPT !.percentiles = [p \in Quantiles |-> -1]]
    @@ ("latencyMean" :> Quotient(-1, 1))

\* The object the stats getter returns for the window win of the heap hp.
Totals(win, hp, enabled) ==
    LET totals == Reduce(win, hp, enabled, 1, bucket)
    IN IF enabled THEN Computed(totals) ELSE NotComputed(totals)

----------------------------------------------------------------------------
\* State after construction

\* No call of any kind.
NoCalls == [kind \in Counters |-> 0]

\* constructor (options), for integer options.  new Array(n) throws a
\* RangeError for a negative n, before any timer is registered; nothing else
\* in the constructor looks at the options.
constructor(options) ==
    /\ BUCKETS = options.rollingCountBuckets
    /\ TIMEOUT = options.rollingCountTimeout
    /\ rollingPercentilesEnabled = options.rollingPercentilesEnabled
    /\ nextId = BUCKETS + 1
    /\ disposed = FALSE
    /\ sinceRotation = 0
    /\ calls = <<NoCalls>>
    /\ tracked = <<>>
    /\ IF BUCKETS < 0
       THEN /\ WINDOW = <<>>
            /\ heap = <<>>
            /\ timerList = <<>>
            /\ result = [type |-> "throw", value |-> "RangeError"]
       ELSE /\ WINDOW = [i \in 1..BUCKETS |-> i]
            /\ heap = [id \in 1..BUCKETS |-> bucket]
            /\ timerList = <<"nextBucket", "snapshot">>
            /\ result = [type |-> "none"]

\* An instance configured as documented: positive integers.
Init ==
    \E n \in 1..MaxBuckets, enabled \in BOOLEAN :
        constructor([rollingCountBuckets |-> n,
                     rollingCountTimeout |-> 1000 * n,
                     rollingPercentilesEnabled |-> enabled])

\* The constructor returned an instance.
Constructed == result # [type |-> "throw", value |-> "RangeError"]

\* const bucketInterval = Math.floor(this[TIMEOUT] / this[BUCKETS]), the period
\* of both timers.  A division by zero gives Infinity, -Infinity or NaN: not
\* finite, with the sign of the dividend.
bucketInterval ==
    IF BUCKETS = 0
    THEN [finite |-> FALSE,
          value |-> IF TIMEOUT > 0 THEN 1 ELSE IF TIMEOUT < 0 THEN -1 ELSE 0]
    ELSE [finite |-> TRUE, value |-> TIMEOUT \div BUCKETS]

\* How many times the rotation callback has run: one object per run.
Rotations == nextId - BUCKETS - 1

\* The buckets of the window as values, in window order.
Win == [i \in 1..Len(WINDOW) |-> heap[WINDOW[i]]]

----------------------------------------------------------------------------
\* Operations

\* A stats getter whose reduce has no initial value: the accumulator is the
\* object this[WINDOW][0] itself, which the getter fills and returns.
statsNoInitialValue ==
    LET en == rollingPercentilesEnabled
        returned == Totals(WINDOW, heap, en)
    IN /\ UNCHANGED <<BUCKETS, rollingPercentilesEnabled, WINDOW, nextId>>
       /\ heap' = [heap EXCEPT ![WINDOW[1]] = returned]
       /\ result' = [type |-> "stats", value |-> returned]

\* get stats ()
stats ==
    /\ UNCHANGED <<BUCKETS, rollingPercentilesEnabled, WINDOW, heap, nextId>>
    /\ result' = [type |-> "stats",
                  value |-> Totals(WINDOW, heap, rollingPercentilesEnabled)]

\* get window (): this[WINDOW].slice()
window ==
    /\ UNCHANGED <<BUCKETS, rollingPercentilesEnabled, WINDOW, heap, nextId>>
    /\ result' = [type |-> "window", value |-> WINDOW]

\* An increment that records no latency for successes.
incrementNoSuccessLatency(property, latencyRunTime) ==
    LET cur == WINDOW[1]
        counted == [heap[cur] EXCEPT ![property] = @ + 1]
        after ==
            IF property \in {"failures", "timeouts"}
            THEN [counted EXCEPT
                    !.latencyTimes = Append(@, OrZero(latencyRunTime))]
            ELSE counted
    IN /\ UNCHANGED <<BUCKETS, rollingPercentilesEnabled, WINDOW, nextId>>
       /\ result' = [type |-> "none"]
       /\ heap' = [heap EXCEPT ![cur] = after]

\* An increment through a reference to the current bucket taken at
\* construction (object 1) instead of this[WINDOW][0]: once that bucket is
\* evicted the write goes to an object nothing reads.
incrementCachedBucket(property, latencyRunTime) ==
    LET cur == 1
        old == IF cur \in DOMAIN heap THEN heap[cur] ELSE bucket
        counted == [old EXCEPT ![property] = @ + 1]
        after ==
            IF property \in {"successes", "failures", "timeouts"}
            THEN [counted EXCEPT
                    !.latencyTimes = Append(@, OrZero(latencyRunTime))]
            ELSE counted
    IN /\ UNCHANGED <<BUCKETS, rollingPercentilesEnabled, WINDOW, nextId>>
       /\ result' = [type |-> "none"]
       /\ heap' = IF cur \in DOMAIN heap THEN [heap EXCEPT ![cur] = after]
                  ELSE heap

\* An increment that keeps the latency only when percentile tracking is on.
incrementLatencyIfEnabled(property, latencyRunTime) ==
    /\ UNCHANGED <<BUCKETS, rollingPercentilesEnabled, WINDOW, nextId>>
    /\ LET cur == WINDOW[1]
           counted == [heap[cur] EXCEPT ![property] = @ + 1]
           after ==
               IF /\ property \in {"successes", "failures", "timeouts"}
                  /\ rollingPercentilesEnabled
               THEN [counted EXCEPT
                       !.latencyTimes = Append(@, OrZero(latencyRunTime))]
               ELSE counted
       IN /\ result' = [type |-> "none"]
          /\ heap' = [heap EXCEPT ![cur] = after]

\* increment (property, latencyRunTime).  On an empty window this[WINDOW][0]
\* is undefined and reading a property of it throws a TypeError.
increment(property, latencyRunTime) ==
    /\ UNCHANGED <<BUCKETS, rollingPercentilesEnabled, WINDOW, nextId>>
    /\ IF WINDOW = <<>>
       THEN /\ result' = [type |-> "throw", value |-> "TypeError"]
            /\ UNCHANGED heap
       ELSE LET cur == WINDOW[1]
                counted == [heap[cur] EXCEPT ![property] = @ + 1]
                after ==
                    IF property \in {"successes", "failures", "timeouts"}
                    THEN [counted EXCEPT
                            !.latencyTimes = Append(@, OrZero(latencyRunTime))]
                    ELSE counted
            IN /\ result' = [type |-> "none"]
               /\ heap' = [heap EXCEPT ![cur] = after]

\* A flag that stays set once it was set: flag || the flag already there.
SetOpenSticky(flag) ==
    /\ UNCHANGED <<BUCKETS, rollingPercentilesEnabled, WINDOW, nextId>>
    /\ LET cur == WINDOW[1]
           b == heap[cur]
           old == IF "isCircuitBreakerOpen" \in DOMAIN b
                  THEN b.isCircuitBreakerOpen ELSE FALSE
       IN /\ heap' = [heap EXCEPT ![cur] =
                [key \in DOMAIN b \cup {"isCircuitBreakerOpen"} |->
                    IF key = "isCircuitBreakerOpen" THEN flag \/ old
                    ELSE b[key]]]
          /\ result' = [type |-> "none"]

\* this[WINDOW][0].isCircuitBreakerOpen = flag.  On an empty window the
\* assignment to a property of undefined throws a TypeError.
SetOpen(flag) ==
    /\ UNCHANGED <<BUCKETS, rollingPercentilesEnabled, WINDOW, nextId>>
    /\ IF WINDOW = <<>>
       THEN /\ result' = [type |-> "throw", value |-> "TypeError"]
            /\ UNCHANGED heap
       ELSE LET cur == WINDOW[1]
                b == heap[cur]
            IN /\ heap' = [heap EXCEPT ![cur] =
                     [key \in DOMAIN b \cup {"isCircuitBreakerOpen"} |->
                         IF key = "isCircuitBreakerOpen" THEN flag ELSE b[key]]]
               /\ result' = [type |-> "none"]

\* open ()
open == SetOpen(TRUE)

\* close ()
close == SetOpen(FALSE)

\* A rotation that forgets window.pop().
nextBucketNoPop ==
    LET shifted == <<nextId>> \o WINDOW
    IN /\ WINDOW' = shifted
       /\ heap' = [id \in {shifted[i] : i \in 1..Len(shifted)} |->
                     IF id = nextId THEN bucket ELSE heap[id]]
       /\ nextId' = nextId + 1
       /\ result' = [type |-> "none"]
       /\ UNCHANGED <<BUCKETS, rollingPercentilesEnabled>>

\* A rotation in the wrong direction: window.shift(); window.push(bucket()).
nextBucketShiftPush ==
    LET shifted == Tail(WINDOW) \o <<nextId>>
    IN /\ WINDOW' = shifted
       /\ heap' = [id \in {shifted[i] : i \in 1..Len(shifted)} |->
                     IF id = nextId THEN bucket ELSE heap[id]]
       /\ nextId' = nextId + 1
       /\ result' = [type |-> "none"]
       /\ UNCHANGED <<BUCKETS, rollingPercentilesEnabled>>

\* A rotation that puts the oldest bucket back at the front as it is:
\* window.unshift(window.pop()).
nextBucketRecycle ==
    /\ WINDOW' = <<WINDOW[Len(WINDOW)]>> \o SubSeq(WINDOW, 1, Len(WINDOW) - 1)
    /\ nextId' = nextId + 1
    /\ result' = [type |-> "none"]
    /\ UNCHANGED <<BUCKETS, rollingPercentilesEnabled, heap>>

\* The callback nextBucket(window) of the rotation timer:
\* window.pop(); window.unshift(bucket())
nextBucket ==
    LET popped == SubSeq(WINDOW, 1, Len(WINDOW) - 1)
        shifted == <<nextId>> \o popped
    IN /\ WINDOW' = shifted
       /\ heap' = [id \in {shifted[i] : i \in 1..Len(shifted)} |->
                     IF id = nextId THEN bucket ELSE heap[id]]
       /\ nextId' = nextId + 1
       /\ result' = [type |-> "none"]
       /\ UNCHANGED <<BUCKETS, rollingPercentilesEnabled>>

\* A snapshot of the current bucket alone: this.emit('snapshot',
\* this[WINDOW][0]).
snapshotCurrentBucket ==
    /\ UNCHANGED <<BUCKETS, rollingPercentilesEnabled, WINDOW, heap, nextId>>
    /\ result' = [type |-> "snapshot", value |-> heap[WINDOW[1]]]

\* The callback of the snapshot timer: this.emit('snapshot', this.stats)
snapshot ==
    /\ UNCHANGED <<BUCKETS, rollingPercentilesEnabled, WINDOW, heap, nextId>>
    /\ result' = [type |-> "snapshot",
                  value |-> Totals(WINDOW, heap, rollingPercentilesEnabled)]

\* A timer list whose first timer is put back where it was, at the front.
RearmedAtFront == timerList

\* The timer list after its first timer has run: an interval is put back
\* at the end of the list.
Rearmed == Tail(timerList) \o <<Head(timerList)>>

----------------------------------------------------------------------------
\* What a caller can do with the array the window getter returned.  The
\* array is the caller's own; its elements are the bucket objects of the
\* window.  0 stands for a value of the caller's that is no bucket.

Returned == result.type = "window"

\* w.push(own)
CallerPushes ==
    /\ Returned
    /\ result' = [result EXCEPT !.value = Append(@, 0)]
    /\ UNCHANGED <<BUCKETS, rollingPercentilesEnabled, WINDOW, heap, nextId>>

\* w.pop()
CallerPops ==
    /\ Returned
    /\ result.value # <<>>
    /\ result' = [result EXCEPT !.value = SubSeq(@, 1, Len(@) - 1)]
    /\ UNCHANGED <<BUCKETS, rollingPercentilesEnabled, WINDOW, heap, nextId>>

\* w[i] = own
CallerReplaces(i) ==
    /\ Returned
    /\ i \in 1..Len(result.value)
    /\ result' = [result EXCEPT !.value[i] = 0]
    /\ UNCHANGED <<BUCKETS, rollingPercentilesEnabled, WINDOW, heap, nextId>>

\* w[i][property]++
CallerIncrements(i, property) ==
    /\ Returned
    /\ i \in 1..Len(result.value)
    /\ result.value[i] \in DOMAIN heap
    /\ heap' = [heap EXCEPT ![result.value[i]][property] = @ + 1]
    /\ UNCHANGED <<BUCKETS, rollingPercentilesEnabled, WINDOW, nextId, result>>

\* w[i].isCircuitBreakerOpen = flag
CallerSetsFlag(i, flag) ==
    /\ Returned
    /\ i \in 1..Len(result.value)
    /\ result.value[i] \in DOMAIN heap
    /\ LET b == heap[result.value[i]]
       IN heap' = [heap EXCEPT ![result.value[i]] =
                     [key \in DOMAIN b \cup {"isCircuitBreakerOpen"} |->
                         IF key = "isCircuitBreakerOpen" THEN flag ELSE b[key]]]
    /\ UNCHANGED <<BUCKETS, rollingPercentilesEnabled, WINDOW, nextId, result>>

\* w[i].latencyTimes.length = 0
CallerClearsLatency(i) ==
    /\ Returned
    /\ i \in 1..Len(result.value)
    /\ result.value[i] \in DOMAIN heap
    /\ heap' = [heap EXCEPT ![result.value[i]].latencyTimes = <<>>]
    /\ UNCHANGED <<BUCKETS, rollingPercentilesEnabled, WINDOW, nextId, result>>

----------------------------------------------------------------------------
\* Specification

\* Latency arguments of increment: omitted or given.
LatencyArgs == {<<>>, <<10>>}

\* How much the window holds: all counts, and one per bucket carrying the flag.
Count(b) ==
    b.failures + b.fallbacks + b.successes + b.rejects + b.fires + b.timeouts
        + b.cacheHits + b.cacheMisses + b.semaphoreRejections

RECURSIVE Load(_)
Load(w) ==
    IF w = <<>> THEN 0
    ELSE Count(Head(w))
         + (IF "isCircuitBreakerOpen" \in DOMAIN Head(w) THEN 1 ELSE 0)
         + Load(Tail(w))

Flagged == WINDOW # <<>> /\ "isCircuitBreakerOpen" \in DOMAIN heap[WINDOW[1]]

\* A step that is no timer's and no shutdown: the calls of a client, and a
\* rotation taken by itself, with the snapshot timer left out.
Untimed ==
    UNCHANGED <<TIMEOUT, timerList, disposed, sinceRotation, calls, tracked>>

Next ==
    \/ Untimed /\ stats
    \/ Untimed /\ window
    \/ /\ Untimed
       /\ Load(Win) < MaxEvents
       /\ \E property \in Counters, latencyRunTime \in LatencyArgs :
            increment(property, latencyRunTime)
    \/ Untimed /\ (Flagged \/ Load(Win) < MaxEvents) /\ open
    \/ Untimed /\ (Flagged \/ Load(Win) < MaxEvents) /\ close
    \/ Untimed /\ Rotations < MaxRotations /\ nextBucket

Spec == Init /\ [][Next]_vars

\* The operations, and a caller that writes to the array it got from the
\* window getter and to the objects in it.
CallerStep ==
    \/ Len(result.value) <= BUCKETS /\ CallerPushes
    \/ CallerPops
    \/ \E i \in 1..Len(result.value) :
          result.value[i] # 0 /\ CallerReplaces(i)
    \/ /\ Load(Win) < MaxEvents
       /\ \E i \in 1..Len(result.value), property \in Counters :
            CallerIncrements(i, property)
    \/ /\ Load(Win) < MaxEvents
       /\ \E i \in 1..Len(result.value), flag \in BOOLEAN :
            CallerSetsFlag(i, flag)
    \/ \E i \in 1..Len(result.value) :
          /\ result.value[i] \in DOMAIN heap
          /\ heap[result.value[i]].latencyTimes # <<>>
          /\ CallerClearsLatency(i)

NextCaller ==
    \/ Next
    \/ Untimed /\ Returned /\ Len(result.value) <= BUCKETS /\ CallerPushes
    \/ Untimed /\ CallerPops
    \/ Untimed /\ Returned /\ \E i \in 1..Len(result.value) :
          result.value[i] # 0 /\ CallerReplaces(i)
    \/ /\ Untimed
       /\ Returned
       /\ Load(Win) < MaxEvents
       /\ \E i \in 1..Len(result.value), property \in Counters :
            CallerIncrements(i, property)
    \/ /\ Untimed
       /\ Returned
       /\ Load(Win) < MaxEvents
       /\ \E i \in 1..Len(result.value), flag \in BOOLEAN :
            CallerSetsFlag(i, flag)
    \/ Untimed /\ Returned /\ \E i \in 1..Len(result.value) :
          /\ result.value[i] \in DOMAIN heap
          /\ heap[result.value[i]].latencyTimes # <<>>
          /\ CallerClearsLatency(i)

SpecCaller == Init /\ [][NextCaller]_vars

\* The three timed kinds with negative, zero and positive latencies.
TimedKinds == {"successes", "failures", "timeouts"}
TimedArgs == {<<-1>>, <<0>>, <<5>>}

NextTimed ==
    \/ Untimed /\ stats
    \/ /\ Untimed
       /\ Load(Win) < MaxEvents
       /\ \E property \in TimedKinds, latencyRunTime \in TimedArgs :
            increment(property, latencyRunTime)
    \/ Untimed /\ Rotations < MaxRotations /\ nextBucket

SpecTimed == Init /\ [][NextTimed]_vars

\* Timed successes alone, with more samples in the window.
LatencySamples == {10, 20, 30, 40}

RECURSIVE Samples(_)
Samples(w) ==
    IF w = <<>> THEN 0 ELSE Len(Head(w).latencyTimes) + Samples(Tail(w))

NextLatency ==
    \/ Untimed /\ stats
    \/ /\ Untimed
       /\ Samples(Win) < MaxSamples
       /\ \E x \in LatencySamples : increment("successes", <<x>>)
    \/ Untimed /\ Rotations < MaxRotations /\ nextBucket

SpecLatency == Init /\ [][NextLatency]_vars



\* The two interval timers.  The first timer of the list runs its callback
\* and is put back at the end.  Status keeps no handle of either interval
\* (both are assigned to the constructor's local variable interval) and has
\* no method that clears them.

\* The rotation timer fires.
rotationTimer ==
    /\ timerList # <<>>
    /\ Head(timerList) = "nextBucket"
    /\ timerList' = Rearmed
    /\ UNCHANGED <<TIMEOUT, disposed, tracked>>
    /\ sinceRotation' = 0
    /\ calls' = <<NoCalls>> \o calls
    /\ nextBucket

\* The snapshot timer fires.  The followed call is counted by the snapshot
\* when the payload reports a call of its kind.
snapshotTimer ==
    /\ timerList # <<>>
    /\ Head(timerList) = "snapshot"
    /\ timerList' = Rearmed
    /\ UNCHANGED <<TIMEOUT, disposed, calls>>
    /\ sinceRotation' = sinceRotation + 1
    /\ snapshot
    /\ tracked' =
         IF tracked = <<>> THEN tracked
         ELSE <<[tracked[1] EXCEPT
                   !.snapshots = @ + 1,
                   !.counted =
                       IF result'.value[tracked[1].kind] > 0 THEN @ + 1 ELSE @]>>

\* A call of increment that completes, entered in the history.
record(property, latencyRunTime) ==
    /\ WINDOW # <<>>
    /\ UNCHANGED <<TIMEOUT, timerList, disposed, sinceRotation, tracked>>
    /\ calls' = [calls EXCEPT ![1][property] = @ + 1]
    /\ increment(property, latencyRunTime)

\* The one call of increment that is followed: whether it falls between
\* the rotation and the snapshot of one tick, how many snapshots were
\* emitted after it and how many of them counted it.
recordTracked(property, latencyRunTime) ==
    /\ WINDOW # <<>>
    /\ tracked = <<>>
    /\ UNCHANGED <<TIMEOUT, timerList, disposed, sinceRotation>>
    /\ calls' = [calls EXCEPT ![1][property] = @ + 1]
    /\ tracked' = <<[kind |-> property,
                     within |-> Head(timerList) = "snapshot",
                     snapshots |-> 0,
                     counted |-> 0]>>
    /\ increment(property, latencyRunTime)

\* The owner of the instance shuts down.  Nothing of the instance changes:
\* the owner has nothing to clear the intervals with.
shutdown ==
    /\ disposed' = TRUE
    /\ UNCHANGED <<BUCKETS, rollingPercentilesEnabled, WINDOW, heap, nextId,
                   result, TIMEOUT, timerList, sinceRotation, calls, tracked>>

\* All calls of the history.
RECURSIVE Called(_)
Called(log) == IF log = <<>> THEN 0 ELSE Count(Head(log)) + Called(Tail(log))

\* The instance with its timers and a client that records.
NextTimers ==
    \/ Rotations < MaxRotations /\ rotationTimer
    \/ snapshotTimer
    \/ /\ Called(calls) < MaxEvents
       /\ \E property \in Counters, latencyRunTime \in LatencyArgs :
            record(property, latencyRunTime)

SpecTimers == Init /\ [][NextTimers]_vars

\* The same with an owner that shuts down.
NextShutdown ==
    \/ Rotations < MaxRotations /\ rotationTimer
    \/ snapshotTimer
    \/ shutdown
    \/ /\ Called(calls) < MaxEvents
       /\ \E property \in Counters, latencyRunTime \in LatencyArgs :
            record(property, latencyRunTime)

SpecShutdown == Init /\ [][NextShutdown]_vars


\* Construction with any integer options, then the calls of a client and
\* rotations.  Nothing can be called on an instance that was never returned.
Timeouts == {-1000, 0, 1, 1000}

InitAny ==
    \E n \in -1..MaxBuckets, t \in Timeouts, enabled \in BOOLEAN :
        constructor([rollingCountBuckets |-> n,
                     rollingCountTimeout |-> t,
                     rollingPercentilesEnabled |-> enabled])

NextAny ==
    \/ Constructed /\ Untimed /\ stats
    \/ Constructed /\ Untimed /\ window
    \/ /\ Constructed
       /\ Untimed
       /\ Load(Win) < MaxEvents
       /\ \E property \in Counters, latencyRunTime \in LatencyArgs :
            increment(property, latencyRunTime)
    \/ Constructed /\ Untimed /\ (Flagged \/ Load(Win) < MaxEvents) /\ open
    \/ Constructed /\ Untimed /\ (Flagged \/ Load(Win) < MaxEvents) /\ close
    \/ Constructed /\ Untimed /\ Rotations < MaxRotations /\ nextBucket

SpecAny == InitAny /\ [][NextAny]_vars


\* The instance with its timers and a client that records one call, at any
\* moment, and then lets the timers run.
NextCoverage ==
    \/ Rotations < MaxTicks /\ rotationTimer
    \/ snapshotTimer
    \/ \E property \in Counters, latencyRunTime \in LatencyArgs :
          recordTracked(property, latencyRunTime)

SpecCoverage == Init /\ [][NextCoverage]_vars

----------------------------------------------------------------------------
\* Properties

Range(f) == {f[i] : i \in DOMAIN f}

\* The sum of one counter over the buckets of the window.
RECURSIVE SumOver(_, _)
SumOver(w, counter) ==
    IF w = <<>> THEN 0 ELSE Head(w)[counter] + SumOver(Tail(w), counter)

\* The value an increment records for its latency argument.
Recorded(arg) == IF arg = <<>> THEN 0 ELSE arg[1]

RotationsSinceFirst(id) == IF id = 1 THEN Rotations ELSE nextId - 1 - id

C2_Positions ==
    \A id \in {1} \cup ((BUCKETS + 1)..(nextId - 1)) :
        LET k == RotationsSinceFirst(id)
        IN IF k < BUCKETS
           THEN WINDOW[k + 1] = id
           ELSE id \notin Range(WINDOW)

C2_Step ==
    nextBucket =>
        /\ WINDOW'[1] \notin DOMAIN heap
        /\ \A c \in Counters : heap'[WINDOW'[1]][c] = 0
        /\ heap'[WINDOW'[1]].latencyTimes = <<>>
        /\ \A i \in 1..(BUCKETS - 1) :
              /\ WINDOW'[i + 1] = WINDOW[i]
              /\ heap'[WINDOW[i]] = heap[WINDOW[i]]
        /\ WINDOW[BUCKETS] \notin Range(WINDOW')

\* C2: the positions hold in every state and every rotation is such a shift.
C2_RotationShifts == [](C2_Positions) /\ [][C2_Step]_vars

C2_Witness ==
    /\ BUCKETS = MaxBuckets
    /\ Rotations = BUCKETS
    /\ 1 \notin Range(WINDOW)
    /\ \E i \in 2..BUCKETS : Count(heap[WINDOW[i]]) > 0

\* C3: an increment raises the named counter of the stats by exactly one,
\* leaves the other eight as they were, and for successes with percentile
\* tracking its latency is in the pooled latency list.
C3_Step ==
    \A property \in Counters :
        (\E x \in LatencyArgs : increment(property, x)) =>
            \A before \in {Totals(WINDOW, heap, rollingPercentilesEnabled)},
               after \in {Totals(WINDOW', heap', rollingPercentilesEnabled')} :
                /\ after[property] = before[property] + 1
                /\ \A other \in Counters \ {property} :
                      after[other] = before[other]
                /\ \A x \in LatencyArgs :
                      (/\ property = "successes"
                       /\ rollingPercentilesEnabled
                       /\ increment(property, x))
                          => Recorded(x) \in Range(after.latencyTimes)

\* C3: every increment step changes the stats in this way.
C3_IncrementThenStats == [][C3_Step]_vars

C3_Witness ==
    /\ rollingPercentilesEnabled
    /\ result.type = "stats"
    /\ result.value.successes = 2
    /\ 10 \in Range(result.value.latencyTimes)
    /\ Rotations > 0

\* C4: every increment adds exactly one to the named counter of the bucket
\* that is at index 0 when it is called, and changes no other object: no
\* increment is lost and none goes to an evicted bucket.
C4_Step ==
    \A property \in Counters, x \in LatencyArgs :
        increment(property, x) =>
            /\ WINDOW' = WINDOW
            /\ DOMAIN heap' = DOMAIN heap
            /\ heap'[WINDOW[1]][property] = heap[WINDOW[1]][property] + 1
            /\ \A id \in DOMAIN heap \ {WINDOW[1]} : heap'[id] = heap[id]
            /\ Load(Win') = Load(Win) + 1

\* C4: every increment step writes to the current bucket alone.
C4_NoLostIncrement == [][C4_Step]_vars

C4_Witness ==
    /\ Rotations >= BUCKETS
    /\ BUCKETS > 1
    /\ Count(heap[WINDOW[1]]) > 0
    /\ Count(heap[WINDOW[2]]) > 0

\* All latency samples of the window, bucket after bucket.
RECURSIVE Pool(_)
Pool(w) == IF w = <<>> THEN <<>> ELSE Head(w).latencyTimes \o Pool(Tail(w))

\* The rank of quantile p (in thousandths) among n samples: the least r with
\* r >= p * n / 1000, and 1 for the quantile 0.
Rank(p, n) ==
    IF p = 0 THEN 1
    ELSE CHOOSE r \in 0..n : 1000 * r >= p * n /\ 1000 * (r - 1) < p * n

\* v is the r-th smallest sample of the pool.
IsRthSmallest(v, r, pool) ==
    /\ v \in Range(pool)
    /\ Cardinality({i \in DOMAIN pool : pool[i] < v}) < r
    /\ Cardinality({i \in DOMAIN pool : pool[i] <= v}) >= r

\* C5: with percentile tracking and at least one sample in the window, each
\* percentile of a stats read is the smallest sample for the quantile 0 and
\* otherwise the sample of rank ceil(p * L) among the L pooled samples; for
\* the samples 10, 20, 30, 40 the percentiles 0, 0.5 and 1 are 10, 20 and 40.
C5_NearestRank ==
    (result.type = "stats" /\ rollingPercentilesEnabled /\ Pool(Win) # <<>>) =>
        /\ \A p \in Quantiles :
              IsRthSmallest(result.value.percentiles[p],
                            Rank(p, Len(Pool(Win))), Pool(Win))
        /\ result.value.latencyTimes = <<10, 20, 30, 40>> =>
              /\ result.value.percentiles[0] = 10
              /\ result.value.percentiles[500] = 20
              /\ result.value.percentiles[1000] = 40

C5_Witness ==
    /\ result.type = "stats"
    /\ rollingPercentilesEnabled
    /\ result.value.latencyTimes = <<10, 20, 30, 40>>
    /\ BUCKETS > 1
    /\ heap[WINDOW[1]].latencyTimes = <<40>>
    /\ heap[WINDOW[2]].latencyTimes = <<30, 10, 20>>

\* C6 as claimed: without percentile tracking every stats read has the
\* mean -1 and every percentile -1, and with tracking none of them is -1.
C6_SentinelNeverComputed ==
    result.type = "stats" =>
        IF rollingPercentilesEnabled
        THEN /\ result.value.latencyMean # Quotient(-1, 1)
             /\ \A p \in Quantiles : result.value.percentiles[p] # -1
        ELSE /\ result.value.latencyMean = Quotient(-1, 1)
             /\ \A p \in Quantiles : result.value.percentiles[p] = -1

\* C6, amended: without percentile tracking every stats read has the mean -1
\* and every percentile -1 whatever was recorded; with tracking none of them
\* is -1 as long as no latency sample in the window is negative.
C6_SentinelWhenDisabled ==
    result.type = "stats" =>
        IF rollingPercentilesEnabled
        THEN (\A i \in DOMAIN Pool(Win) : Pool(Win)[i] >= 0) =>
                /\ result.value.latencyMean # Quotient(-1, 1)
                /\ \A p \in Quantiles : result.value.percentiles[p] # -1
        ELSE /\ result.value.latencyMean = Quotient(-1, 1)
             /\ \A p \in Quantiles : result.value.percentiles[p] = -1

C6_Witness ==
    /\ result.type = "stats"
    /\ ~rollingPercentilesEnabled
    /\ Rotations > 0
    /\ {-1, 5} \subseteq Range(Pool(Win))

\* C7: with percentile tracking and no latency sample in the window a stats
\* read has the mean 0 and every percentile 0.
C7_EmptyPoolIsZero ==
    (result.type = "stats" /\ rollingPercentilesEnabled /\ Pool(Win) = <<>>) =>
        /\ result.value.latencyMean = Quotient(0, 1)
        /\ \A p \in Quantiles : result.value.percentiles[p] = 0
        /\ result.value.latencyTimes = <<>>

C7_Witness ==
    /\ result.type = "stats"
    /\ rollingPercentilesEnabled
    /\ Pool(Win) = <<>>
    /\ Rotations >= BUCKETS

\* C8: each counter of a stats read is the sum of that counter over the
\* buckets in the window at the read.
C8_StatsSumsWindow ==
    result.type = "stats" =>
        \A c \in Counters : result.value[c] = SumOver(Win, c)

C8_Witness ==
    /\ result.type = "stats"
    /\ BUCKETS > 1
    /\ \E c \in Counters : heap[WINDOW[1]][c] > 0 /\ heap[WINDOW[2]][c] > 0

\* C9 as claimed: nothing a caller does to the array the window getter
\* returned, or to a bucket in it, changes the window: its buckets, and so
\* the next window read and the next stats read, stay as they were.
C9_CallerStep ==
    (Returned /\ CallerStep) =>
        /\ Win' = Win
        /\ Totals(WINDOW', heap', rollingPercentilesEnabled')
             = Totals(WINDOW, heap, rollingPercentilesEnabled)

\* C9 as claimed: no step of the caller changes the window.
C9_WindowIsDefensiveCopy == [][C9_CallerStep]_vars

\* What does hold of the copy: adding, removing and replacing elements of
\* the returned array changes neither this[WINDOW] nor any bucket.
C9_ArrayStep ==
    (CallerPushes \/ CallerPops \/ \E i \in 1..BUCKETS : CallerReplaces(i)) =>
        /\ WINDOW' = WINDOW
        /\ heap' = heap

C9_ArrayIsCopied == [][C9_ArrayStep]_vars

\* C10: a stats read changes no bucket and not the window; a second read
\* with nothing in between returns the same aggregate; every read returns
\* the sums of the window as it is at that read.
C10_Step ==
    stats =>
        /\ heap' = heap
        /\ WINDOW' = WINDOW
        /\ result.type = "stats" => result' = result
        /\ \A c \in Counters : result'.value[c] = SumOver(Win', c)

\* C10: every stats read leaves the window as it was.
C10_StatsReadsOnly == [][C10_Step]_vars

C10_Witness ==
    /\ result.type = "stats"
    /\ Load(Win) = MaxEvents
    /\ Rotations > 0
    /\ Len(result.value.latencyTimes) > 0


\* C11: the rotation timer and the snapshot timer are cancelled by the
\* shutdown of the owner: once the owner has shut down no rotation runs and
\* no snapshot is emitted, and a second shutdown changes nothing.
C11_Step ==
    disposed =>
        /\ timerList' = timerList
        /\ WINDOW' = WINDOW
        /\ nextId' = nextId
        /\ result'.type # "snapshot"

C11_NoTimerAfterShutdown == [][C11_Step]_vars


\* C12: between two consecutive rotations exactly one snapshot is emitted,
\* and the payload of a snapshot is what the stats getter returns at the
\* moment of the emission.
C12_Step ==
    /\ (rotationTimer /\ Rotations >= 1) => sinceRotation = 1
    /\ snapshotTimer =>
         /\ result'.type = "snapshot"
         /\ result'.value = Totals(WINDOW', heap', rollingPercentilesEnabled')
         /\ \A kind \in Counters : result'.value[kind] = SumOver(Win', kind)

C12_OneSnapshotPerRotation == [][C12_Step]_vars

C12_Witness ==
    /\ Rotations >= 2
    /\ sinceRotation = 1
    /\ result.type = "snapshot"
    /\ \E kind \in Counters : result.value[kind] > 0


\* C13: on every instance the constructor returned, after any rotations and
\* calls, no call of increment, open or close throws.
C13_RecordersNeverThrow ==
    Constructed => result # [type |-> "throw", value |-> "TypeError"]


\* C14: a call of open leaves the flag of the current bucket true and a
\* call of close leaves it false, whatever it was: with no rotation between
\* them the last of any calls of open and close decides the flag, and open
\* followed by close leaves it false.
C14_Step ==
    /\ open => heap'[WINDOW'[1]].isCircuitBreakerOpen = TRUE
    /\ close => heap'[WINDOW'[1]].isCircuitBreakerOpen = FALSE
    /\ (WINDOW' = WINDOW /\ Flagged /\ ~open /\ ~close) =>
         /\ "isCircuitBreakerOpen" \in DOMAIN heap'[WINDOW[1]]
         /\ heap'[WINDOW[1]].isCircuitBreakerOpen
              = heap[WINDOW[1]].isCircuitBreakerOpen

C14_LastWriteWins == [][C14_Step]_vars

C14_Witness ==
    /\ Flagged
    /\ heap[WINDOW[1]].isCircuitBreakerOpen = FALSE
    /\ Count(heap[WINDOW[1]]) > 0


\* C15: construction with rollingCountBuckets <= 0 or rollingCountTimeout <= 0
\* is rejected: no instance exists whose options are not positive, whose
\* window is empty, or whose rotation interval is zero, negative or the
\* result of a division by zero.
C15_MisconfigurationRejected ==
    Constructed =>
        /\ BUCKETS > 0
        /\ TIMEOUT > 0
        /\ Rotations = 0 => Len(WINDOW) > 0
        /\ bucketInterval.finite
        /\ bucketInterval.value > 0


\* C16: increment(kind, x) changes the current bucket alone: it adds 1 to
\* the counter kind, appends x (0 when omitted) to the latency list exactly
\* when kind is successes, failures or timeouts, with percentile tracking on
\* or off, and leaves the other eight counters, the flag and every other
\* bucket as they were.  open and close change the flag of the current
\* bucket and nothing else.
C16_IncrementStep(property, arg) ==
    increment(property, arg) =>
        LET b == heap[WINDOW[1]]
            a == heap'[WINDOW[1]]
        IN /\ WINDOW' = WINDOW
           /\ DOMAIN a = DOMAIN b
           /\ a[property] = b[property] + 1
           /\ \A other \in Counters \ {property} : a[other] = b[other]
           /\ a.latencyTimes =
                IF property \in {"successes", "failures", "timeouts"}
                THEN b.latencyTimes \o <<Recorded(arg)>>
                ELSE b.latencyTimes
           /\ a.percentiles = b.percentiles
           /\ "isCircuitBreakerOpen" \in DOMAIN b =>
                a.isCircuitBreakerOpen = b.isCircuitBreakerOpen
           /\ \A i \in 2..Len(WINDOW) : heap'[WINDOW[i]] = heap[WINDOW[i]]

C16_FlagStep ==
    (open \/ close) =>
        LET b == heap[WINDOW[1]]
            a == heap'[WINDOW[1]]
        IN /\ WINDOW' = WINDOW
           /\ DOMAIN a = DOMAIN b \cup {"isCircuitBreakerOpen"}
           /\ \A key \in DOMAIN b \ {"isCircuitBreakerOpen"} : a[key] = b[key]
           /\ \A i \in 2..Len(WINDOW) : heap'[WINDOW[i]] = heap[WINDOW[i]]

C16_Step ==
    /\ \A property \in Counters, arg \in LatencyArgs :
         C16_IncrementStep(property, arg)
    /\ C16_FlagStep

C16_OnlyCurrentBucketChanges == [][C16_Step]_vars

C16_Witness ==
    /\ ~rollingPercentilesEnabled
    /\ Len(WINDOW) > 1
    /\ heap[WINDOW[1]].latencyTimes = <<10>>
    /\ heap[WINDOW[1]].successes = 1
    /\ Count(heap[WINDOW[2]]) > 0


\* How often v occurs in the list.
Occurrences(list, v) == Cardinality({i \in DOMAIN list : list[i] = v})

\* C17: with percentile tracking the latency list of a stats read is in
\* ascending order and holds the samples of all buckets of the window, each
\* as often as the buckets hold it, and latencyMean is its sum over its
\* length when it is not empty; without tracking the list is empty.
C17_SortedPool ==
    result.type = "stats" =>
        LET list == result.value.latencyTimes
            mean == result.value.latencyMean
        IN IF rollingPercentilesEnabled
           THEN /\ \A i \in 1..(Len(list) - 1) : list[i] <= list[i + 1]
                /\ Len(list) = Len(Pool(Win))
                /\ \A v \in Range(list) \cup Range(Pool(Win)) :
                     Occurrences(list, v) = Occurrences(Pool(Win), v)
                /\ list # <<>> =>
                     /\ mean.den > 0
                     /\ mean.num * Len(list) = SumSeq(Pool(Win)) * mean.den
           ELSE list = <<>>

C17_Witness ==
    /\ result.type = "stats"
    /\ rollingPercentilesEnabled
    /\ BUCKETS > 1
    /\ heap[WINDOW[1]].latencyTimes = <<20>>
    /\ heap[WINDOW[2]].latencyTimes = <<30, 10, 30>>
    /\ result.value.latencyTimes = <<10, 20, 30, 30>>
    /\ result.value.latencyMean = [num |-> 45, den |-> 2]

\* The same read without tracking: samples in the window, none returned.
C17_WitnessDisabled ==
    /\ result.type = "stats"
    /\ ~rollingPercentilesEnabled
    /\ Pool(Win) # <<>>
    /\ result.value.latencyTimes = <<>>


\* C18: every bucket of the window, those of the constructor and those a
\* rotation creates, has an isCircuitBreakerOpen field holding a boolean.
C18_FlagIsBoolean ==
    \A i \in 1..Len(WINDOW) :
        /\ "isCircuitBreakerOpen" \in DOMAIN heap[WINDOW[i]]
        /\ heap[WINDOW[i]].isCircuitBreakerOpen \in BOOLEAN


\* The calls of one kind in the latest n entries of the history.
RECURSIVE CallsIn(_, _, _)
CallsIn(log, n, kind) ==
    IF n = 0 \/ log = <<>> THEN 0
    ELSE Head(log)[kind] + CallsIn(Tail(log), n - 1, kind)

\* No call in the latest n entries of the history.
Quiet(log, n) == \A j \in 1..n : j <= Len(log) => log[j] = NoCalls

\* C19: each counter of the stats is the number of increment calls of its
\* kind since the BUCKETS-th latest rotation (since construction when there
\* were fewer rotations), so a call stops being counted at the BUCKETS-th
\* rotation after it; after BUCKETS rotations without a call every counter
\* is 0 and no latency sample is left in the window.
C19_WindowCountsRecentCalls ==
    \A totals \in {Totals(WINDOW, heap, rollingPercentilesEnabled)} :
        /\ \A kind \in Counters :
             totals[kind] = CallsIn(calls, BUCKETS, kind)
        /\ (Rotations >= BUCKETS /\ Quiet(calls, BUCKETS)) =>
             /\ \A kind \in Counters : totals[kind] = 0
             /\ totals.latencyTimes = <<>>
             /\ Pool(Win) = <<>>
        /\ result.type = "snapshot" =>
             \A kind \in Counters :
                 result.value[kind] = CallsIn(calls, BUCKETS, kind)

\* A timed call was recorded, then BUCKETS rotations ran without a call.
C19_Witness ==
    /\ BUCKETS > 1
    /\ Rotations = BUCKETS
    /\ Quiet(calls, BUCKETS)
    /\ calls[Len(calls)].successes = 1
    /\ result.type = "snapshot"
    /\ result.value.successes = 0

\* A call still counted just before the rotation that ends its count.
C19_WitnessCounted ==
    /\ BUCKETS > 1
    /\ Rotations = BUCKETS - 1
    /\ calls[Len(calls)].successes = 1
    /\ calls[1] = NoCalls
    /\ result.type = "snapshot"
    /\ result.value.successes = 1


Min(a, b) == IF a < b THEN a ELSE b

\* C20: with the rotation timer and the snapshot timer firing in turn,
\* rotation first, a call recorded between two ticks is counted in the
\* payloads of the next BUCKETS - 1 snapshots and in none after them, and a
\* call recorded between the rotation and the snapshot of one tick is
\* counted in the payloads of the next BUCKETS snapshots.
C20_SnapshotsCountingACall ==
    tracked # <<>> =>
        tracked[1].counted =
            Min(tracked[1].snapshots,
                IF tracked[1].within THEN BUCKETS ELSE BUCKETS - 1)

\* A call between two ticks, and more than BUCKETS snapshots after it.
C20_Witness ==
    /\ tracked # <<>>
    /\ BUCKETS > 1
    /\ ~tracked[1].within
    /\ Rotations > 1
    /\ tracked[1].snapshots > BUCKETS
    /\ tracked[1].counted = BUCKETS - 1

\* A call between the rotation and the snapshot of one tick.
C20_WitnessWithinTick ==
    /\ tracked # <<>>
    /\ BUCKETS > 1
    /\ tracked[1].within
    /\ tracked[1].snapshots > BUCKETS
    /\ tracked[1].counted = BUCKETS

=============================================================================
